---- MODULE Spec2Model ----
(***************************************************************************)
(* Fuelflow: a model of src/App.tsx.                                       *)
(*                                                                         *)
(*   - SwipeableStationRow: the per-row gesture handlers (SpecSwipe).      *)
(*   - App: the form solver, pinned price, submit, navigation, receipt     *)
(*     recognition, the station directory and the durable slots            *)
(*     (SpecSolver, SpecLedger, SpecPinned, SpecScan, SpecDirectory,       *)
(*     SpecStore, SpecDraft).                                              *)
(*   - calculateStats, getSortedEntries and chartData, applied to          *)
(*     collections of records (SpecStats, SpecSort, SpecChart).            *)
(*                                                                         *)
(* Text fields are sequences of one-character strings, so that parseFloat, *)
(* toFixed and Number.prototype.toString are computed character by         *)
(* character. Numbers are exact decimals n/d (d a power of ten) or NaN.    *)
(***************************************************************************)
EXTENDS Integers, Sequences, FiniteSets, TLC

VARIABLES
    \* SwipeableStationRow (src/App.tsx:103-106)
    offset, startX, startOffset, isDragging,
    \* calls of the row's onSelect prop made by the last row handler
    selectCalls,
    \* App state (src/App.tsx:240-270)
    view, entries, loading, editingEntryId, isPriceFixed, formData,
    \* the station directory and its modal (src/App.tsx:246-249)
    stations, isStationModalOpen, isAddingStation, newStationName,
    \* window.localStorage, the slots the App reads and writes
    localStorage,
    \* receipt recognitions started by handleFileUpload and not yet settled
    pending,
    \* Date.now(), in milliseconds
    now,
    \* position of the App in its mount sequence
    phase,
    \* the handler that ran last, and its input
    last

rowVars == <<offset, startX, startOffset, isDragging, selectCalls>>
stationVars == <<stations, isStationModalOpen, isAddingStation, newStationName>>
appVars == <<view, entries, loading, editingEntryId, isPriceFixed, formData,
             stations, isStationModalOpen, isAddingStation, newStationName,
             localStorage, pending, now, phase>>
vars == <<offset, startX, startOffset, isDragging, selectCalls,
          view, entries, loading, editingEntryId, isPriceFixed, formData,
          stations, isStationModalOpen, isAddingStation, newStationName,
          localStorage, pending, now, phase, last>>

(***************************************************************************)
(* Bounds of the model.                                                    *)
(***************************************************************************)
\* pointer x coordinates are drawn from 0..MaxX
MaxX == 41
\* the clock runs from 1 to MaxNow
MaxNow == 2
\* at most MaxEntries records are kept in the collection
MaxEntries == 2
\* at most MaxPending recognitions are in flight in the model
MaxPending == 2

(***************************************************************************)
(* Program constants.                                                      *)
(***************************************************************************)
\* reveal width: the offset is capped at -RevealWidth
RevealWidth == 80
\* snap threshold: offset < -SnapThreshold snaps open
SnapThreshold == 40
\* jitter threshold: |diff| > DragThreshold classifies the gesture as a drag
DragThreshold == 5
\* toFixed digits of totalCost and of volume
CostDigits == 2
VolumeDigits == 3

(***************************************************************************)
(* An optional value (T | null) is <<>> for null and <<v>> for v.          *)
(***************************************************************************)
Null == <<>>
Some(v) == <<v>>

(***************************************************************************)
(* Numbers and text.                                                       *)
(***************************************************************************)
DigitChars == <<"0", "1", "2", "3", "4", "5", "6", "7", "8", "9">>
IsDigit(c) == \E i \in 1..10 : DigitChars[i] = c
DigitVal(c) == (CHOOSE i \in 1..10 : DigitChars[i] = c) - 1

RECURSIVE Pow10(_)
Pow10(k) == IF k = 0 THEN 1 ELSE 10 * Pow10(k - 1)

Abs(x) == IF x < 0 THEN -x ELSE x

NaN == [kind |-> "NaN", n |-> 0, d |-> 1]

\* the decimal n/d with trailing zeros of the fraction removed
RECURSIVE Num(_, _)
Num(n, d) ==
    IF d > 1 /\ n % 10 = 0 THEN Num(n \div 10, d \div 10)
    ELSE [kind |-> "number", n |-> n, d |-> d]

isNaN(x) == x.kind = "NaN"

\* number of digit characters of s from position i on
RECURSIVE DigitRun(_, _)
DigitRun(s, i) ==
    IF i <= Len(s) /\ IsDigit(s[i]) THEN 1 + DigitRun(s, i + 1) ELSE 0

\* value of the k digits of s that start at position i
RECURSIVE DigitsValue(_, _, _)
DigitsValue(s, i, k) ==
    IF k = 0 THEN 0
    ELSE 10 * DigitsValue(s, i, k - 1) + DigitVal(s[i + k - 1])

\* parseFloat: the longest prefix [+-] digits [. digits], NaN when it has no
\* digit; whatever follows the prefix is ignored. (The typed alphabet holds
\* no white space, exponent or "Infinity".)
parseFloat(s) ==
    LET signed == Len(s) >= 1 /\ s[1] \in {"-", "+"}
        first == IF signed THEN 2 ELSE 1
        il == DigitRun(s, first)
        dot == first + il
        fl == IF dot <= Len(s) /\ s[dot] = "." THEN DigitRun(s, dot + 1) ELSE 0
        mag == DigitsValue(s, first, il) * Pow10(fl) + DigitsValue(s, dot + 1, fl)
    IN  IF il = 0 /\ fl = 0 THEN NaN
        ELSE Num(IF signed /\ s[1] = "-" THEN -mag ELSE mag, Pow10(fl))

\* decimal digits of a natural number
RECURSIVE NatToText(_)
NatToText(n) ==
    IF n < 10 THEN <<DigitChars[n + 1]>>
    ELSE NatToText(n \div 10) \o <<DigitChars[(n % 10) + 1]>>

RECURSIVE Zeros(_)
Zeros(k) == IF k <= 0 THEN <<>> ELSE <<"0">> \o Zeros(k - 1)

\* the digits of m, at least f + 1 of them, with a point before the last f
FixedText(m, f) ==
    LET raw == NatToText(m)
        ds == Zeros(f + 1 - Len(raw)) \o raw
        k == Len(ds) - f
    IN  IF f = 0 THEN ds
        ELSE SubSeq(ds, 1, k) \o <<".">> \o SubSeq(ds, k + 1, Len(ds))

\* num/den with the common factors of ten cancelled and den > 0
RECURSIVE Quotient(_, _)
Quotient(num, den) ==
    IF den < 0 THEN Quotient(-num, -den)
    ELSE IF num # 0 /\ num % 10 = 0 /\ den % 10 = 0
         THEN Quotient(num \div 10, den \div 10)
         ELSE <<num, den>>

\* Number.prototype.toFixed(f) of the quotient num/den (den # 0): the texts it
\* can produce. The magnitude is rounded to the nearest multiple of 10^-f; an
\* exact tie is decided by the binary representation of the double, which the
\* model does not keep, so both neighbours are possible. The sign is "-" when
\* the value is below zero.
toFixed(num, den, f) ==
    LET x == Quotient(num, den)
        b == x[2]
        a == (Abs(x[1]) % b) * Pow10(f)
        q == (Abs(x[1]) \div b) * Pow10(f) + (a \div b)
        r == a % b
        ms == IF 2 * r < b THEN {q}
              ELSE IF 2 * r > b THEN {q + 1}
              ELSE {q, q + 1}
    IN  {(IF x[1] < 0 THEN <<"-">> ELSE <<>>) \o FixedText(m, f) : m \in ms}

\* Number.prototype.toString of a number (plain decimal notation)
toString(x) ==
    IF isNaN(x) THEN <<"N", "a", "N">>
    ELSE LET mag == Abs(x.n)
             ip == NatToText(mag \div x.d)
             fr == NatToText(mag % x.d)
             fl == Len(NatToText(x.d)) - 1
         IN  (IF x.n < 0 THEN <<"-">> ELSE <<>>) \o ip \o
             (IF x.d = 1 THEN <<>> ELSE <<".">> \o Zeros(fl - Len(fr)) \o fr)

(***************************************************************************)
(* SwipeableStationRow                                                     *)
(***************************************************************************)
\* the station of the modelled row
station == "Shell"

RowInit ==
    /\ offset = 0
    /\ startX = Null
    /\ startOffset = 0
    /\ isDragging = FALSE
    /\ selectCalls = <<>>

\* onTouchStart / onMouseDown
handleStart(clientX) ==
    /\ startX' = Some(clientX)
    /\ startOffset' = offset
    /\ isDragging' = FALSE
    /\ selectCalls' = <<>>
    /\ last' = [op |-> "handleStart", arg |-> <<>>]
    /\ UNCHANGED appVars
    /\ UNCHANGED offset

\* the two caps are left out
dragOffsetUnclamped(from, diff) == from + diff

\* the offset a classified drag of diff from startOffset gives
dragOffset(from, diff) ==
    LET newOffset == from + diff
    IN  IF newOffset > 0 THEN 0
        ELSE IF newOffset < -RevealWidth THEN -RevealWidth
        ELSE newOffset

\* |diff| > 5 classifies the gesture as a drag
isDrag(diff) == Abs(diff) > DragThreshold

\* onTouchMove / onMouseMove
handleMove(clientX) ==
    /\ startX # Null
    /\ LET diff == clientX - startX[1]
           dragging == isDragging \/ isDrag(diff)
       IN  /\ isDragging' = dragging
           /\ offset' = IF dragging THEN dragOffset(startOffset, diff) ELSE offset
    /\ selectCalls' = <<>>
    /\ last' = [op |-> "handleMove", arg |-> <<>>]
    /\ UNCHANGED appVars
    /\ UNCHANGED <<startX, startOffset>>

\* a release at -40 snaps open as well
snapOffsetInclusive(at) == IF at <= -SnapThreshold THEN -RevealWidth ELSE 0

\* the offset a release after a classified drag snaps to
snapOffset(at) == IF at < -SnapThreshold THEN -RevealWidth ELSE 0

\* a tap selects whatever the offset is
tapCallsAlways(at) == <<station>>

\* the onSelect calls of a release that is a tap
tapCalls(at) == IF at = 0 THEN <<station>> ELSE <<>>

\* onTouchEnd / onMouseUp / onMouseLeave
handleEnd ==
    /\ startX # Null
    /\ startX' = Null
    /\ IF isDragging
       THEN /\ offset' = snapOffset(offset)
            /\ selectCalls' = <<>>
       ELSE /\ selectCalls' = tapCalls(offset)
            /\ offset' = 0
    /\ isDragging' = FALSE
    /\ last' = [op |-> "handleEnd", arg |-> <<isDragging, offset>>]
    /\ UNCHANGED appVars
    /\ UNCHANGED startOffset

RowNext ==
    \/ \E clientX \in 0..MaxX : handleStart(clientX)
    \/ \E clientX \in 0..MaxX : handleMove(clientX)
    \/ handleEnd

(***************************************************************************)
(* App: initial state (src/App.tsx:240-270)                                *)
(***************************************************************************)
\* new Date().toISOString().split('T')[0] and getCurrentTime(): the clock of
\* the model spans a few milliseconds, within one minute of one day
today == "2024-01-01"
getCurrentTime == "08:00"

blankForm(price) ==
    [date |-> today, time |-> getCurrentTime, odometer |-> <<>>,
     pricePerUnit |-> price, volume |-> <<>>, totalCost |-> <<>>,
     stationName |-> "", fullTank |-> TRUE, notes |-> ""]

\* a browser profile in which the App never ran
emptyStorage ==
    [fuel_entries |-> Null, fuel_stations |-> Null, fuel_fix_price |-> Null,
     fuel_saved_price |-> Null]

DEFAULT_STATIONS == <<"Oman Oil", "Shell", "Al Maha">>

AppInit ==
    /\ view = "DASHBOARD"
    /\ entries = <<>>
    /\ loading = FALSE
    /\ editingEntryId = Null
    /\ isPriceFixed = FALSE
    /\ formData = blankForm(<<>>)
    /\ stations = DEFAULT_STATIONS
    /\ isStationModalOpen = FALSE
    /\ isAddingStation = FALSE
    /\ newStationName = ""
    /\ localStorage = emptyStorage
    /\ pending = <<>>
    /\ now = 1
    /\ phase = "mount"

NoOp == [op |-> "init", arg |-> <<>>]

(***************************************************************************)
(* Timestamps and Array.prototype.sort                                     *)
(***************************************************************************)
\* the days the model knows, in calendar order, and the times of day
Calendar ==
    <<"2024-01-01", "2024-01-02", "2024-01-03", "2024-01-04", "2024-01-05",
      "2024-01-06", "2024-01-07", "2024-01-08", "2024-01-09", "2024-01-10",
      "2024-01-11", "2024-01-12", "2024-01-13", "2024-01-14">>
DayOf(date) == CHOOSE i \in 1..Len(Calendar) : Calendar[i] = date
MinuteOf(time) == IF time = "08:00" THEN 480 ELSE 0

\* new Date(e.date).getTime(), in milliseconds since 2023-12-31T00:00; a
\* date without a time part is midnight
getTime(d) == DayOf(d.date) * 86400000 + (IF d.iso THEN MinuteOf(d.time) * 60000 ELSE 0)

\* Array.prototype.sort with the comparator (a, b) => key(a) - key(b): the
\* sort is stable, so the result is the one permutation that is ascending
\* in the key and keeps equal keys in their previous order
stableSort(seq, key) ==
    LET n == Len(seq)
        rank(i) == Cardinality({j \in 1..n : \/ key[j] < key[i]
                                             \/ key[j] = key[i] /\ j < i}) + 1
    IN  [r \in 1..n |-> seq[CHOOSE i \in 1..n : rank(i) = r]]

\* every render of App sorts the array held in `entries` in place, by
\* timestamp, while it computes chartData
renderSort(es) == stableSort(es, [i \in 1..Len(es) |-> getTime(es[i].date)])

(***************************************************************************)
(* App: the durable slots and the mount sequence (src/App.tsx:273-296)     *)
(***************************************************************************)
\* JSON has no NaN: JSON.stringify writes it as null
jsonNumber(x) == IF isNaN(x) THEN [kind |-> "null", n |-> 0, d |-> 1] ELSE x

\* JSON.stringify(entries), as the structure that JSON.parse gives back
JSONstringify(es) ==
    [i \in 1..Len(es) |->
        [es[i] EXCEPT !.odometer = jsonNumber(@), !.pricePerUnit = jsonNumber(@),
                      !.volume = jsonNumber(@), !.totalCost = jsonNumber(@)]]

JSONparse(text) == text

\* the save effect of [entries]
saveEntries(es) ==
    localStorage' = [localStorage EXCEPT !.fuel_entries = Some(JSONstringify(es))]

\* first commit: the load effect, then the save effect of the initial render
mountEffects ==
    /\ phase = "mount"
    /\ entries' = IF localStorage.fuel_entries # Null
                  THEN JSONparse(localStorage.fuel_entries[1]) ELSE entries
    /\ stations' = IF localStorage.fuel_stations # Null
                   THEN localStorage.fuel_stations[1] ELSE stations
    /\ isPriceFixed' = IF localStorage.fuel_fix_price = Some("true")
                       THEN TRUE ELSE isPriceFixed
    /\ localStorage' = [localStorage EXCEPT
                           !.fuel_entries = Some(JSONstringify(entries)),
                           !.fuel_stations = Some(stations)]
    /\ phase' = IF localStorage.fuel_entries # Null \/ localStorage.fuel_stations # Null
              THEN "loaded" ELSE "ready"
    /\ last' = [op |-> "mountEffects", arg |-> <<>>]
    /\ UNCHANGED rowVars
    /\ UNCHANGED <<isStationModalOpen, isAddingStation, newStationName>>
    /\ UNCHANGED <<view, loading, editingEntryId, formData, pending, now>>

\* second commit: the loaded collections are rendered and the save effects run
\* again (both slots were present: the first commit of any session writes both)
mountRerender ==
    /\ phase = "loaded"
    /\ entries' = renderSort(entries)
    /\ localStorage' = [localStorage EXCEPT
                           !.fuel_entries = Some(JSONstringify(entries')),
                           !.fuel_stations = Some(stations)]
    /\ phase' = "ready"
    /\ last' = [op |-> "mountRerender", arg |-> <<>>]
    /\ UNCHANGED rowVars
    /\ UNCHANGED stationVars
    /\ UNCHANGED <<view, loading, editingEntryId, isPriceFixed, formData,
                   pending, now>>

\* the page is closed and opened again: the component state is constructed
\* anew, requests in flight die with the page, localStorage stays
reload ==
    /\ phase = "ready"
    /\ view' = "DASHBOARD"
    /\ entries' = <<>>
    /\ loading' = FALSE
    /\ editingEntryId' = Null
    /\ isPriceFixed' = FALSE
    /\ formData' = blankForm(<<>>)
    /\ stations' = DEFAULT_STATIONS
    /\ isStationModalOpen' = FALSE
    /\ isAddingStation' = FALSE
    /\ newStationName' = ""
    /\ pending' = <<>>
    /\ phase' = "mount"
    /\ last' = [op |-> "reload", arg |-> <<>>]
    /\ UNCHANGED rowVars
    /\ UNCHANGED <<localStorage, now>>

\* time passes
tick ==
    /\ now < MaxNow
    /\ now' = now + 1
    /\ last' = [op |-> "tick", arg |-> <<>>]
    /\ UNCHANGED rowVars
    /\ UNCHANGED stationVars
    /\ UNCHANGED <<view, entries, loading, editingEntryId, isPriceFixed, formData,
                   localStorage, pending, phase>>

(***************************************************************************)
(* App: resetForm and navigation (src/App.tsx:298-328, 471-479)            *)
(***************************************************************************)
\* the pinned price is forgotten
savedPriceIgnored == <<>>

\* resetForm: savedPrice
savedPrice ==
    IF isPriceFixed /\ localStorage.fuel_saved_price # Null
    THEN localStorage.fuel_saved_price[1] ELSE <<>>

\* every recognition in flight was issued by a draft that is gone now
discardDraft(ps) == [k \in 1..Len(ps) |-> [ps[k] EXCEPT !.draftDiscarded = TRUE]]

\* the editing id survives the reset
resetFormKeepsEditing ==
    /\ formData' = blankForm(savedPrice)
    /\ UNCHANGED editingEntryId
    /\ pending' = discardDraft(pending)

\* the station of the discarded draft stays in the new one
resetFormKeepsStation ==
    /\ formData' = [blankForm(savedPrice) EXCEPT !.stationName = formData.stationName]
    /\ editingEntryId' = Null
    /\ pending' = discardDraft(pending)

resetForm ==
    /\ formData' = blankForm(savedPrice)
    /\ editingEntryId' = Null
    /\ pending' = discardDraft(pending)

handleTabChange(newView) ==
    /\ phase = "ready"
    /\ IF newView = "ADD" \/ view = "ADD"
       THEN resetForm
       ELSE UNCHANGED <<formData, editingEntryId, pending>>
    /\ view' = newView
    /\ last' = [op |-> "handleTabChange", arg |-> <<>>]
    /\ UNCHANGED rowVars
    /\ UNCHANGED stationVars
    /\ UNCHANGED <<entries, loading, isPriceFixed, localStorage, now, phase>>

handleCancel ==
    /\ phase = "ready"
    /\ view = "ADD"
    /\ resetForm
    /\ view' = IF editingEntryId # Null THEN "HISTORY" ELSE "DASHBOARD"
    /\ last' = [op |-> "handleCancel", arg |-> <<>>]
    /\ UNCHANGED rowVars
    /\ UNCHANGED stationVars
    /\ UNCHANGED <<entries, loading, isPriceFixed, localStorage, now, phase>>

(***************************************************************************)
(* App: the form solver (src/App.tsx:332-388)                              *)
(***************************************************************************)
\* the product is written with three decimals
costTextsThreeDigits(vText, pText, prevCost) ==
    IF vText # <<>> /\ pText # <<>>
       /\ ~isNaN(parseFloat(vText)) /\ ~isNaN(parseFloat(pText))
    THEN toFixed(parseFloat(vText).n * parseFloat(pText).n,
                 parseFloat(vText).d * parseFloat(pText).d, VolumeDigits)
    ELSE {prevCost}

\* totalCost after an edit of pricePerUnit or volume: (v * p).toFixed(2) when
\* both texts are non-empty and parse, the previous text otherwise
costTexts(vText, pText, prevCost) ==
    IF vText # <<>> /\ pText # <<>>
       /\ ~isNaN(parseFloat(vText)) /\ ~isNaN(parseFloat(pText))
    THEN toFixed(parseFloat(vText).n * parseFloat(pText).n,
                 parseFloat(vText).d * parseFloat(pText).d, CostDigits)
    ELSE {prevCost}

\* the division is not guarded against p = 0 (Infinity is written)
volumeTextsUnguarded(cText, pText, prevVolume) ==
    IF cText # <<>> /\ pText # <<>>
       /\ ~isNaN(parseFloat(cText)) /\ ~isNaN(parseFloat(pText))
    THEN IF parseFloat(pText).n = 0 THEN {<<"I", "n", "f", "i", "n", "i", "t", "y">>}
         ELSE toFixed(parseFloat(cText).n * parseFloat(pText).d,
                      parseFloat(cText).d * parseFloat(pText).n, VolumeDigits)
    ELSE {prevVolume}

\* volume after an edit of totalCost: (c / p).toFixed(3) when both texts are
\* non-empty and parse and p !== 0, the previous text otherwise
volumeTexts(cText, pText, prevVolume) ==
    IF cText # <<>> /\ pText # <<>>
       /\ ~isNaN(parseFloat(cText)) /\ ~isNaN(parseFloat(pText))
       /\ parseFloat(pText).n # 0
    THEN toFixed(parseFloat(cText).n * parseFloat(pText).d,
                 parseFloat(cText).d * parseFloat(pText).n, VolumeDigits)
    ELSE {prevVolume}

\* the price is mirrored whether or not the price is pinned
mirrorPriceAlways(val) == [localStorage EXCEPT !.fuel_saved_price = Some(val)]

\* handlePriceChange: the write of fuel_saved_price
mirrorPrice(val) ==
    IF isPriceFixed THEN [localStorage EXCEPT !.fuel_saved_price = Some(val)]
    ELSE localStorage

handlePriceChange(val) ==
    /\ phase = "ready"
    /\ view = "ADD"
    /\ \E c \in costTexts(formData.volume, val, formData.totalCost) :
          formData' = [formData EXCEPT !.pricePerUnit = val, !.totalCost = c]
    /\ localStorage' = mirrorPrice(val)
    /\ last' = [op |-> "handlePriceChange", arg |-> <<>>]
    /\ UNCHANGED rowVars
    /\ UNCHANGED stationVars
    /\ UNCHANGED <<view, entries, loading, editingEntryId, isPriceFixed, pending,
                   now, phase>>

handleToggleFixPrice ==
    /\ phase = "ready"
    /\ view = "ADD"
    /\ isPriceFixed' = ~isPriceFixed
    /\ localStorage' =
          IF ~isPriceFixed
          THEN [localStorage EXCEPT !.fuel_fix_price = Some("true"),
                                    !.fuel_saved_price = Some(formData.pricePerUnit)]
          ELSE [localStorage EXCEPT !.fuel_fix_price = Some("false")]
    /\ last' = [op |-> "handleToggleFixPrice", arg |-> <<>>]
    /\ UNCHANGED rowVars
    /\ UNCHANGED stationVars
    /\ UNCHANGED <<view, entries, loading, editingEntryId, formData, pending, now,
                   phase>>

handleVolumeChange(val) ==
    /\ phase = "ready"
    /\ view = "ADD"
    /\ \E c \in costTexts(val, formData.pricePerUnit, formData.totalCost) :
          formData' = [formData EXCEPT !.volume = val, !.totalCost = c]
    /\ last' = [op |-> "handleVolumeChange", arg |-> <<>>]
    /\ UNCHANGED rowVars
    /\ UNCHANGED stationVars
    /\ UNCHANGED <<view, entries, loading, editingEntryId, isPriceFixed,
                   localStorage, pending, now, phase>>

handleTotalCostChange(val) ==
    /\ phase = "ready"
    /\ view = "ADD"
    /\ \E v \in volumeTexts(val, formData.pricePerUnit, formData.volume) :
          formData' = [formData EXCEPT !.totalCost = val, !.volume = v]
    /\ last' = [op |-> "handleTotalCostChange", arg |-> <<>>]
    /\ UNCHANGED rowVars
    /\ UNCHANGED stationVars
    /\ UNCHANGED <<view, entries, loading, editingEntryId, isPriceFixed,
                   localStorage, pending, now, phase>>

\* the odometer input's onChange (src/App.tsx:773)
handleOdometerChange(val) ==
    /\ phase = "ready"
    /\ view = "ADD"
    /\ formData' = [formData EXCEPT !.odometer = val]
    /\ last' = [op |-> "handleOdometerChange", arg |-> <<>>]
    /\ UNCHANGED rowVars
    /\ UNCHANGED stationVars
    /\ UNCHANGED <<view, entries, loading, editingEntryId, isPriceFixed,
                   localStorage, pending, now, phase>>

(***************************************************************************)
(* SpecSwipe: one SwipeableStationRow under every sequence of pointer      *)
(* events; the App is left as constructed.                                 *)
(***************************************************************************)
Init == RowInit /\ AppInit /\ last = NoOp

SwipeNext == RowNext

SpecSwipe == Init /\ [][SwipeNext]_vars

(***************************************************************************)
(* App: submit, edit, delete (src/App.tsx:390-469, 515-519)                *)
(***************************************************************************)
\* the dates and times that new Date(`${date}T${time}`) parses
Dates == {Calendar[i] : i \in 1..Len(Calendar)}
Times == {"08:00"}

\* finalDate: dateTime.toISOString() when the combination parses (iso, kept as
\* its date and time parts), the raw date text otherwise
finalDate(date, time) ==
    IF date \in Dates /\ time \in Times
    THEN [iso |-> TRUE, date |-> date, time |-> time]
    ELSE [iso |-> FALSE, date |-> date, time |-> ""]

\* the record fields a draft gives
payload(form) ==
    [date |-> finalDate(form.date, form.time),
     odometer |-> parseFloat(form.odometer),
     pricePerUnit |-> parseFloat(form.pricePerUnit),
     volume |-> parseFloat(form.volume),
     totalCost |-> parseFloat(form.totalCost),
     stationName |-> IF form.stationName # "" THEN form.stationName
                     ELSE "Unknown Station",
     fullTank |-> form.fullTank,
     notes |-> form.notes]

withId(id, fields) ==
    [id |-> id, date |-> fields.date, odometer |-> fields.odometer,
     pricePerUnit |-> fields.pricePerUnit, volume |-> fields.volume,
     totalCost |-> fields.totalCost, stationName |-> fields.stationName,
     fullTank |-> fields.fullTank, notes |-> fields.notes]

\* the id of a new record: Date.now().toString()
newId == NatToText(now)

\* an empty volume is let through
missingFieldButVolume(form) ==
    \/ form.odometer = <<>>
    \/ form.totalCost = <<>>
    \/ form.pricePerUnit = <<>>

\* the guard of handleAddEntry: one of the four texts is empty
missingField(form) ==
    \/ form.odometer = <<>>
    \/ form.totalCost = <<>>
    \/ form.volume = <<>>
    \/ form.pricePerUnit = <<>>

handleAddEntry ==
    /\ phase = "ready"
    /\ view = "ADD"
    /\ IF missingField(formData)
       THEN UNCHANGED <<view, entries, editingEntryId, formData, localStorage,
                        pending>>
       ELSE /\ IF editingEntryId # Null
               THEN /\ entries' = renderSort(
                         [i \in 1..Len(entries) |->
                            IF entries[i].id = editingEntryId[1]
                            THEN withId(entries[i].id, payload(formData))
                            ELSE entries[i]])
                    /\ view' = "HISTORY"
               ELSE /\ Len(entries) < MaxEntries
                    /\ entries' = renderSort(
                         Append(entries, withId(newId, payload(formData))))
                    /\ view' = "DASHBOARD"
            /\ resetForm
            /\ saveEntries(entries')
    /\ last' = [op |-> "handleAddEntry", arg |-> <<>>]
    /\ UNCHANGED rowVars
    /\ UNCHANGED stationVars
    /\ UNCHANGED <<loading, isPriceFixed, now, phase>>

isNumber(x) == x.kind \in {"number", "NaN"}

\* the Edit button of a history row
handleEdit(i) ==
    /\ phase = "ready"
    /\ view = "HISTORY"
    /\ i \in 1..Len(entries)
    /\ LET entry == entries[i]
       IN  \* toString of a null field throws before any state is set
           /\ isNumber(entry.odometer) /\ isNumber(entry.pricePerUnit)
           /\ isNumber(entry.volume) /\ isNumber(entry.totalCost)
           /\ formData' =
                 [date |-> entry.date.date,
                  time |-> IF entry.date.iso THEN entry.date.time
                           ELSE getCurrentTime,
                  odometer |-> toString(entry.odometer),
                  pricePerUnit |-> toString(entry.pricePerUnit),
                  volume |-> toString(entry.volume),
                  totalCost |-> toString(entry.totalCost),
                  stationName |-> entry.stationName,
                  fullTank |-> entry.fullTank,
                  notes |-> entry.notes]
           /\ editingEntryId' = Some(entry.id)
    /\ view' = "ADD"
    /\ pending' = discardDraft(pending)
    /\ last' = [op |-> "handleEdit", arg |-> <<>>]
    /\ UNCHANGED rowVars
    /\ UNCHANGED stationVars
    /\ UNCHANGED <<entries, loading, isPriceFixed, localStorage, now, phase>>

\* the Delete button of a history row, and the answer to confirm()
handleDelete(i, confirmed) ==
    /\ phase = "ready"
    /\ view = "HISTORY"
    /\ i \in 1..Len(entries)
    /\ IF confirmed
       THEN /\ entries' = renderSort(
                            SelectSeq(entries, LAMBDA e : e.id # entries[i].id))
            /\ saveEntries(entries')
       ELSE UNCHANGED <<entries, localStorage>>
    /\ last' = [op |-> "handleDelete", arg |-> <<confirmed>>]
    /\ UNCHANGED rowVars
    /\ UNCHANGED stationVars
    /\ UNCHANGED <<view, loading, editingEntryId, isPriceFixed, formData, pending,
                   now, phase>>

(***************************************************************************)
(* App: receipt recognition (src/App.tsx:481-513)                          *)
(***************************************************************************)
\* the change event of the file input, rendered in the ADD view of a new
\* record. setLoading(true) and the setLoading(false) of the finally block
\* run in this one handler, before the reader has loaded anything.
handleFileUpload(hasFile) ==
    /\ phase = "ready"
    /\ view = "ADD"
    /\ editingEntryId = Null
    /\ IF hasFile
       THEN /\ Len(pending) < MaxPending
            /\ pending' = Append(pending, [stage |-> "reading",
                                           draftDiscarded |-> FALSE])
            /\ loading' = FALSE
       ELSE UNCHANGED <<pending, loading>>
    /\ last' = [op |-> "handleFileUpload", arg |-> <<>>]
    /\ UNCHANGED rowVars
    /\ UNCHANGED stationVars
    /\ UNCHANGED <<view, entries, editingEntryId, isPriceFixed, formData,
                   localStorage, now, phase>>

\* reader.onloadend: parseReceiptImage is called
readerLoadEnd(k) ==
    /\ k \in 1..Len(pending)
    /\ pending[k].stage = "reading"
    /\ pending' = [pending EXCEPT ![k].stage = "requested"]
    /\ last' = [op |-> "readerLoadEnd", arg |-> <<>>]
    /\ UNCHANGED rowVars
    /\ UNCHANGED stationVars
    /\ UNCHANGED <<view, entries, loading, editingEntryId, isPriceFixed, formData,
                   localStorage, now, phase>>

without(ps, k) == SubSeq(ps, 1, k - 1) \o SubSeq(ps, k + 1, Len(ps))

\* a null guess of totalCost empties the field
mergeReceiptClearing(prev, data) ==
    [prev EXCEPT
        !.totalCost = IF data.totalCost # Null THEN toString(data.totalCost[1])
                      ELSE <<>>,
        !.volume = IF data.volume # Null THEN toString(data.volume[1]) ELSE @,
        !.pricePerUnit = IF data.pricePerUnit # Null
                         THEN toString(data.pricePerUnit[1]) ELSE @,
        !.stationName = IF data.stationName # Null /\ data.stationName[1] # ""
                        THEN data.stationName[1] ELSE @,
        !.date = IF data.date # Null /\ data.date[1] # "" THEN data.date[1]
                 ELSE @]

\* the setFormData of a resolved parseReceiptImage
mergeReceipt(prev, data) ==
    [prev EXCEPT
        !.totalCost = IF data.totalCost # Null THEN toString(data.totalCost[1])
                      ELSE @,
        !.volume = IF data.volume # Null THEN toString(data.volume[1]) ELSE @,
        !.pricePerUnit = IF data.pricePerUnit # Null
                         THEN toString(data.pricePerUnit[1]) ELSE @,
        !.stationName = IF data.stationName # Null /\ data.stationName[1] # ""
                        THEN data.stationName[1] ELSE @,
        !.date = IF data.date # Null /\ data.date[1] # "" THEN data.date[1]
                 ELSE @]

\* parseReceiptImage resolves with data
recognitionResolved(k, data) ==
    /\ k \in 1..Len(pending)
    /\ pending[k].stage = "requested"
    /\ formData' = mergeReceipt(formData, data)
    /\ pending' = without(pending, k)
    /\ last' = [op |-> "recognitionResolved", arg |-> <<pending[k].draftDiscarded>>,
                data |-> data]
    /\ UNCHANGED rowVars
    /\ UNCHANGED stationVars
    /\ UNCHANGED <<view, entries, loading, editingEntryId, isPriceFixed,
                   localStorage, now, phase>>

\* parseReceiptImage rejects: the alert, and nothing else
recognitionRejected(k) ==
    /\ k \in 1..Len(pending)
    /\ pending[k].stage = "requested"
    /\ pending' = without(pending, k)
    /\ last' = [op |-> "recognitionRejected", arg |-> <<pending[k].draftDiscarded>>]
    /\ UNCHANGED rowVars
    /\ UNCHANGED stationVars
    /\ UNCHANGED <<view, entries, loading, editingEntryId, isPriceFixed, formData,
                   localStorage, now, phase>>

(***************************************************************************)
(* App: the station directory (src/App.tsx:522-549, 761, 931-1011)         *)
(* The search query of the modal only filters the rows shown and is left   *)
(* out: with an empty query every station of the directory has a row.      *)
(***************************************************************************)
\* the texts typed into the "Enter station name" input
StationTexts == {" ", "Shell", " Shell ", " BP ", "shell"}

\* String.prototype.trim on the texts of the model
trim(text) ==
    CASE text = " " -> ""
      [] text = " BP " -> "BP"
      [] text = " Shell " -> "Shell"
      [] OTHER -> text

\* the station names of the model in the order of their UTF-16 code units,
\* which is the order of Array.prototype.sort without a comparator
CodeUnitOrder == <<"Al Maha", "BP", "Oman Oil", "Shell", "shell">>
codeUnitRank(name) == CHOOSE i \in 1..Len(CodeUnitOrder) : CodeUnitOrder[i] = name

\* [...].sort()
sortNames(ss) == stableSort(ss, [i \in 1..Len(ss) |-> codeUnitRank(ss[i])])

\* stations.includes(name)
includes(ss, name) == \E i \in 1..Len(ss) : ss[i] = name

\* the name is added whether or not the directory has it
withStationAlways(ss, name) == sortNames(Append(ss, name))

\* handleAddStation: the directory after the add
withStation(ss, name) ==
    IF ~includes(ss, name) THEN sortNames(Append(ss, name)) ELSE ss

\* the station field is cleared whatever it holds
stationAfterDeleteAlways(current, stationToDelete) == ""

\* handleDeleteStation: the station field of the draft after the delete
stationAfterDelete(current, stationToDelete) ==
    IF current = stationToDelete THEN "" ELSE current

\* the write is lost
saveStationsSkipped(ss) == localStorage

\* the save effect of [stations]
saveStations(ss) == [localStorage EXCEPT !.fuel_stations = Some(ss)]

\* the station row of the form is tapped
openStationModal ==
    /\ phase = "ready"
    /\ view = "ADD"
    /\ ~isStationModalOpen
    /\ isStationModalOpen' = TRUE
    /\ isAddingStation' = FALSE
    /\ last' = [op |-> "openStationModal", arg |-> <<>>]
    /\ UNCHANGED rowVars
    /\ UNCHANGED <<view, entries, loading, editingEntryId, isPriceFixed, formData,
                   stations, newStationName, localStorage, pending, now, phase>>

\* the backdrop or the close button of the modal
closeStationModal ==
    /\ isStationModalOpen
    /\ isStationModalOpen' = FALSE
    /\ last' = [op |-> "closeStationModal", arg |-> <<>>]
    /\ UNCHANGED rowVars
    /\ UNCHANGED <<view, entries, loading, editingEntryId, isPriceFixed, formData,
                   stations, isAddingStation, newStationName, localStorage,
                   pending, now, phase>>

\* the "Add Station" button under the list
startAddingStation ==
    /\ isStationModalOpen
    /\ ~isAddingStation
    /\ isAddingStation' = TRUE
    /\ newStationName' = ""
    /\ last' = [op |-> "startAddingStation", arg |-> <<>>]
    /\ UNCHANGED rowVars
    /\ UNCHANGED <<view, entries, loading, editingEntryId, isPriceFixed, formData,
                   stations, isStationModalOpen, localStorage, pending, now, phase>>

\* the change event of the "Enter station name" input
handleNewStationNameChange(val) ==
    /\ isStationModalOpen
    /\ isAddingStation
    /\ newStationName' = val
    /\ last' = [op |-> "handleNewStationNameChange", arg |-> <<>>]
    /\ UNCHANGED rowVars
    /\ UNCHANGED <<view, entries, loading, editingEntryId, isPriceFixed, formData,
                   stations, isStationModalOpen, isAddingStation, localStorage,
                   pending, now, phase>>

handleAddStation ==
    /\ isStationModalOpen
    /\ isAddingStation
    /\ IF trim(newStationName) = ""
       THEN UNCHANGED <<stations, formData, newStationName, isAddingStation,
                        isStationModalOpen, localStorage>>
       ELSE LET name == trim(newStationName)
            IN  /\ stations' = withStation(stations, name)
                /\ formData' = [formData EXCEPT !.stationName = name]
                /\ newStationName' = ""
                /\ isAddingStation' = FALSE
                /\ isStationModalOpen' = FALSE
                /\ localStorage' = saveStations(stations')
    /\ last' = [op |-> "handleAddStation", arg |-> <<trim(newStationName)>>]
    /\ UNCHANGED rowVars
    /\ UNCHANGED <<view, entries, loading, editingEntryId, isPriceFixed, pending,
                   now, phase>>

\* onSelect of a station row
handleStationSelect(name) ==
    /\ isStationModalOpen
    /\ ~isAddingStation
    /\ includes(stations, name)
    /\ formData' = [formData EXCEPT !.stationName = name]
    /\ isStationModalOpen' = FALSE
    /\ last' = [op |-> "handleStationSelect", arg |-> <<name>>]
    /\ UNCHANGED rowVars
    /\ UNCHANGED <<view, entries, loading, editingEntryId, isPriceFixed, stations,
                   isAddingStation, newStationName, localStorage, pending, now,
                   phase>>

\* onDelete of a station row, and the answer to confirm()
handleDeleteStation(stationToDelete, confirmed) ==
    /\ isStationModalOpen
    /\ ~isAddingStation
    /\ includes(stations, stationToDelete)
    /\ IF confirmed
       THEN /\ stations' = SelectSeq(stations, LAMBDA st : st # stationToDelete)
            /\ formData' = [formData EXCEPT
                  !.stationName = stationAfterDelete(@, stationToDelete)]
            /\ localStorage' = saveStations(stations')
       ELSE UNCHANGED <<stations, formData, localStorage>>
    /\ last' = [op |-> "handleDeleteStation", arg |-> <<stationToDelete, confirmed>>]
    /\ UNCHANGED rowVars
    /\ UNCHANGED <<view, entries, loading, editingEntryId, isPriceFixed,
                   isStationModalOpen, isAddingStation, newStationName, pending,
                   now, phase>>

(***************************************************************************)
(* calculateStats (src/App.tsx:31-63)                                      *)
(***************************************************************************)
Zero == Num(0, 1)

RECURSIVE GCD(_, _)
GCD(a, b) == IF b = 0 THEN a ELSE GCD(b, a % b)

\* a + b and a - b of JavaScript numbers; null counts as 0, NaN stays NaN
plus(x, y) ==
    IF isNaN(x) \/ isNaN(y) THEN NaN ELSE Num(x.n * y.d + y.n * x.d, x.d * y.d)
minus(x, y) ==
    IF isNaN(x) \/ isNaN(y) THEN NaN ELSE Num(x.n * y.d - y.n * x.d, x.d * y.d)

\* x > 0, false for NaN
isPositive(x) == ~isNaN(x) /\ x.n > 0

\* x / y for y > 0, as a fraction in lowest terms
divide(x, y) ==
    IF isNaN(x) THEN NaN
    ELSE LET num == x.n * y.d
             den == x.d * y.n
             g == GCD(Abs(num), den)
         IN  [kind |-> "number", n |-> num \div g, d |-> den \div g]

\* [...entries].sort by timestamp
sortedByDate(es) == stableSort(es, [i \in 1..Len(es) |-> getTime(es[i].date)])

\* sorted.reduce((sum, e) => sum + e.totalCost, 0)
RECURSIVE sumTotalCost(_, _)
sumTotalCost(sorted, k) ==
    IF k = 0 THEN Zero ELSE plus(sumTotalCost(sorted, k - 1), sorted[k].totalCost)

\* the statistics of a single record are all zero
statsOfOneZero(totalCost, lastOdometer) ==
    [totalCost |-> Zero, totalDistance |-> Zero, averageKml |-> Zero,
     lastOdometer |-> Zero]

\* the return of the branch sorted.length < 2
statsOfOne(totalCost, lastOdometer) ==
    [totalCost |-> totalCost, totalDistance |-> Zero, averageKml |-> Zero,
     lastOdometer |-> lastOdometer]

\* a negative distance is clamped to 0
totalDistanceClamped(sorted) ==
    LET diff == minus(sorted[Len(sorted)].odometer, sorted[1].odometer)
    IN  IF isPositive(diff) THEN diff ELSE Zero

\* lastOdometer - firstOdometer
totalDistance(sorted) == minus(sorted[Len(sorted)].odometer, sorted[1].odometer)

\* the volume of the first record is counted too
RECURSIVE totalVolumeAll(_, _)
totalVolumeAll(sorted, k) ==
    IF k < 1 THEN Zero ELSE plus(totalVolumeAll(sorted, k - 1), sorted[k].volume)

\* the loop over sorted[1..]: the volumes of all records but the first
RECURSIVE totalVolume(_, _)
totalVolume(sorted, k) ==
    IF k < 2 THEN Zero ELSE plus(totalVolume(sorted, k - 1), sorted[k].volume)

calculateStats(es) ==
    IF Len(es) = 0
    THEN [totalCost |-> Zero, totalDistance |-> Zero, averageKml |-> Zero,
          lastOdometer |-> Zero]
    ELSE LET sorted == sortedByDate(es)
             cost == sumTotalCost(sorted, Len(sorted))
             lastOdometer == sorted[Len(sorted)].odometer
         IN  IF Len(sorted) < 2 THEN statsOfOne(cost, lastOdometer)
             ELSE LET distance == totalDistance(sorted)
                      volume == totalVolume(sorted, Len(sorted))
                  IN  [totalCost |-> cost,
                       totalDistance |-> distance,
                       averageKml |-> IF isPositive(volume)
                                      THEN divide(distance, volume) ELSE Zero,
                       lastOdometer |-> lastOdometer]

\* const stats = calculateStats(entries), for a collection es
calculateStatsCall(es) ==
    /\ last' = [op |-> "calculateStats", arg |-> <<es>>,
                result |-> calculateStats(es)]
    /\ UNCHANGED rowVars
    /\ UNCHANGED appVars

(***************************************************************************)
(* getSortedEntries and chartData (src/App.tsx:556-583)                    *)
(***************************************************************************)
SortOptions == {"date-desc", "date-asc", "cost-desc", "cost-asc"}

\* Array.prototype.sort with a comparator that is negative for the elements
\* at i and j exactly when before[i, j]: the stable sort
sortWith(seq, before) ==
    LET n == Len(seq)
        rank(i) == Cardinality({j \in 1..n :
                      \/ before[j, i]
                      \/ ~before[i, j] /\ j < i}) + 1
    IN  [r \in 1..n |-> seq[CHOOSE i \in 1..n : rank(i) = r]]

\* x - y < 0 for two numbers (null counts as 0)
lessThan(x, y) == x.n * y.d < y.n * x.d

\* the comparator of 'cost-desc' is the one of 'cost-asc'
costDescBeforeAsAsc(a, b) == lessThan(a.totalCost, b.totalCost)

\* b.totalCost - a.totalCost < 0
costDescBefore(a, b) == lessThan(b.totalCost, a.totalCost)

getSortedEntries(es, sortOption) ==
    LET n == Len(es)
    IN  CASE sortOption = "date-asc" ->
               sortWith(es, [i, j \in 1..n |->
                                getTime(es[i].date) < getTime(es[j].date)])
          [] sortOption = "date-desc" ->
               sortWith(es, [i, j \in 1..n |->
                                getTime(es[j].date) < getTime(es[i].date)])
          [] sortOption = "cost-asc" ->
               sortWith(es, [i, j \in 1..n |->
                                lessThan(es[i].totalCost, es[j].totalCost)])
          [] sortOption = "cost-desc" ->
               sortWith(es, [i, j \in 1..n |-> costDescBefore(es[i], es[j])])
          [] OTHER -> es

\* const sortedHistory = getSortedEntries(), for a collection es and each
\* value of sortOption
getSortedEntriesCall(es) ==
    /\ last' = [op |-> "getSortedEntries", arg |-> <<es>>,
                result |-> [o \in SortOptions |-> getSortedEntries(es, o)]]
    /\ UNCHANGED rowVars
    /\ UNCHANGED appVars

\* slice(-10): the number of points kept
PointLimit == 10

\* toLocaleDateString('en-US', {month: 'short', day: 'numeric'}) of the days
\* of the model
ChartLabels ==
    <<"Jan 1", "Jan 2", "Jan 3", "Jan 4", "Jan 5", "Jan 6", "Jan 7", "Jan 8",
      "Jan 9", "Jan 10", "Jan 11", "Jan 12", "Jan 13", "Jan 14">>
toLocaleDateString(d) == ChartLabels[DayOf(d.date)]

\* the first ten are kept
firstPoints(sorted) ==
    SubSeq(sorted, 1, IF Len(sorted) > PointLimit THEN PointLimit ELSE Len(sorted))

\* slice(-10)
lastPoints(sorted) ==
    SubSeq(sorted, IF Len(sorted) > PointLimit THEN Len(sorted) - PointLimit + 1 ELSE 1,
           Len(sorted))

chartData(es) ==
    LET kept == lastPoints(renderSort(es))
    IN  [r \in 1..Len(kept) |->
            [date |-> toLocaleDateString(kept[r].date), cost |-> kept[r].totalCost]]

\* const chartData = entries.sort(...).slice(-10).map(...), for a collection es
chartDataCall(es) ==
    /\ last' = [op |-> "chartData", arg |-> <<es>>, result |-> chartData(es)]
    /\ UNCHANGED rowVars
    /\ UNCHANGED appVars

(***************************************************************************)
(* SpecSolver: the App is mounted and the three solver fields are edited,  *)
(* in any order, with texts that are empty, non-numeric, zero, negative,   *)
(* integral and fractional; navigation resets the draft.                   *)
(***************************************************************************)
Views == {"DASHBOARD", "ADD", "HISTORY"}

SolverTexts ==
    { <<>>, <<"a", "b", "c">>, <<"0">>, <<"2">>, <<"1", "0">>, <<"1", ".", "5">>,
      <<"1", "5", ".", "0", "0">>, <<"0", ".", "3">>, <<"-", "2">> }

SolverNext ==
    \/ mountEffects
    \/ \E newView \in Views : handleTabChange(newView)
    \/ \E val \in SolverTexts : handlePriceChange(val)
    \/ \E val \in SolverTexts : handleVolumeChange(val)
    \/ \E val \in SolverTexts : handleTotalCostChange(val)

SpecSolver == Init /\ [][SolverNext]_vars

(***************************************************************************)
(* SpecLedger: records are created, edited in place and deleted. The four  *)
(* required fields are typed empty, numeric or non-numeric; the clock      *)
(* ticks between events, or does not.                                      *)
(***************************************************************************)
PriceTexts == { <<>>, <<"2">> }
VolumeTexts == { <<>>, <<"2">> }
CostTexts == { <<>>, <<"4">> }
OdometerTexts == { <<>>, <<"7">>, <<"x">> }

LedgerNext ==
    \/ mountEffects
    \/ tick
    \/ \E newView \in Views : handleTabChange(newView)
    \/ handleCancel
    \/ \E val \in PriceTexts : handlePriceChange(val)
    \/ \E val \in VolumeTexts : handleVolumeChange(val)
    \/ \E val \in CostTexts : handleTotalCostChange(val)
    \/ \E val \in OdometerTexts : handleOdometerChange(val)
    \/ handleAddEntry
    \/ \E i \in 1..MaxEntries : handleEdit(i)
    \/ \E i \in 1..MaxEntries, confirmed \in BOOLEAN : handleDelete(i, confirmed)

SpecLedger == Init /\ [][LedgerNext]_vars

(***************************************************************************)
(* SpecPinned: the price is pinned and unpinned, typed, and drafts are     *)
(* discarded by navigation, cancel and submit, over several sessions of    *)
(* the App on one browser profile.                                         *)
(***************************************************************************)
PinnedPriceTexts == { <<>>, <<"1", ".", "5">>, <<"2">> }

PinnedNext ==
    \/ mountEffects
    \/ mountRerender
    \/ reload
    \/ \E newView \in Views : handleTabChange(newView)
    \/ handleCancel
    \/ \E val \in PinnedPriceTexts : handlePriceChange(val)
    \/ handleToggleFixPrice
    \/ handleVolumeChange(<<"2">>)
    \/ handleOdometerChange(<<"7">>)
    \/ handleAddEntry
    \/ \E i \in 1..MaxEntries : handleEdit(i)

SpecPinned == Init /\ [][PinnedNext]_vars

(***************************************************************************)
(* SpecScan: receipts are scanned from the editor while the draft is       *)
(* edited, submitted, cancelled, left by navigation or replaced by a       *)
(* record opened for editing; each recognition resolves or rejects at any  *)
(* later moment.                                                           *)
(***************************************************************************)
\* the ReceiptData values parseReceiptImage resolves with
Guesses ==
    { [totalCost |-> Null, volume |-> Null, pricePerUnit |-> Null,
       stationName |-> Null, date |-> Null],
      [totalCost |-> Some(Num(4, 1)), volume |-> Some(Num(2, 1)),
       pricePerUnit |-> Some(Num(2, 1)), stationName |-> Some("Shell"),
       date |-> Some("2024-01-02")],
      [totalCost |-> Some(Num(0, 1)), volume |-> Null, pricePerUnit |-> Null,
       stationName |-> Some(""), date |-> Some("")] }

ScanNext ==
    \/ mountEffects
    \/ \E newView \in Views : handleTabChange(newView)
    \/ handleCancel
    \/ \E hasFile \in BOOLEAN : handleFileUpload(hasFile)
    \/ \E k \in 1..MaxPending : readerLoadEnd(k)
    \/ \E k \in 1..MaxPending, data \in Guesses : recognitionResolved(k, data)
    \/ \E k \in 1..MaxPending : recognitionRejected(k)
    \/ handleOdometerChange(<<"7">>)
    \/ handleAddEntry
    \/ \E i \in 1..MaxEntries : handleEdit(i)

SpecScan == Init /\ [][ScanNext]_vars

(***************************************************************************)
(* SpecDirectory: stations are added, selected and deleted in the modal of *)
(* the editor, over several sessions of the App on one browser profile.    *)
(***************************************************************************)
DirectoryNext ==
    \/ mountEffects
    \/ mountRerender
    \/ reload
    \/ \E newView \in Views : handleTabChange(newView)
    \/ openStationModal
    \/ closeStationModal
    \/ startAddingStation
    \/ \E val \in StationTexts : handleNewStationNameChange(val)
    \/ handleAddStation
    \/ \E i \in 1..Len(CodeUnitOrder) : handleStationSelect(CodeUnitOrder[i])
    \/ \E i \in 1..Len(CodeUnitOrder), confirmed \in BOOLEAN :
          handleDeleteStation(CodeUnitOrder[i], confirmed)

SpecDirectory == Init /\ [][DirectoryNext]_vars

(***************************************************************************)
(* SpecStore: records that name a station are created, edited and deleted  *)
(* while the stations "Shell" and "shell" are added, selected and deleted. *)
(***************************************************************************)
StoreStations == {"Shell", "shell"}

StoreNext ==
    \/ mountEffects
    \/ \E newView \in Views : handleTabChange(newView)
    \/ handlePriceChange(<<"2">>)
    \/ handleVolumeChange(<<"2">>)
    \/ handleOdometerChange(<<"7">>)
    \/ handleAddEntry
    \/ \E i \in 1..MaxEntries : handleEdit(i)
    \/ \E i \in 1..MaxEntries, confirmed \in BOOLEAN : handleDelete(i, confirmed)
    \/ openStationModal
    \/ closeStationModal
    \/ startAddingStation
    \/ handleNewStationNameChange("shell")
    \/ handleAddStation
    \/ \E name \in StoreStations : handleStationSelect(name)
    \/ \E name \in StoreStations, confirmed \in BOOLEAN :
          handleDeleteStation(name, confirmed)

SpecStore == Init /\ [][StoreNext]_vars

(***************************************************************************)
(* SpecDraft: drafts are filled (price, volume, odometer, station), the    *)
(* price is pinned and unpinned, and drafts end by cancel, submit, tab     *)
(* change or the opening of a record for editing.                          *)
(***************************************************************************)
DraftNext ==
    \/ mountEffects
    \/ \E newView \in Views : handleTabChange(newView)
    \/ handleCancel
    \/ handlePriceChange(<<"2">>)
    \/ handleToggleFixPrice
    \/ handleVolumeChange(<<"2">>)
    \/ handleOdometerChange(<<"7">>)
    \/ handleAddEntry
    \/ \E i \in 1..MaxEntries : handleEdit(i)
    \/ openStationModal
    \/ handleStationSelect("Shell")

SpecDraft == Init /\ [][DraftNext]_vars

(***************************************************************************)
(* SpecStats: calculateStats is applied to every collection of at most     *)
(* MaxStatLen records, in every order, with equal and with distinct        *)
(* timestamps.                                                             *)
(***************************************************************************)
MaxStatLen == 3

statRecord(day, odometer, volume, totalCost, fullTank) ==
    [id |-> NatToText(day),
     date |-> [iso |-> TRUE, date |-> Calendar[day], time |-> "08:00"],
     odometer |-> Num(odometer, 1), pricePerUnit |-> Num(2, 1),
     volume |-> Num(volume, 1), totalCost |-> Num(totalCost, 1),
     stationName |-> "Shell", fullTank |-> fullTank, notes |-> ""]

\* odometer, volume and totalCost of the records
StatReadings == {<<1000, 10, 5>>, <<1400, 20, 7>>, <<1400, 0, 5>>, <<1000, 0, 7>>}

StatRecords ==
    {statRecord(day, r[1], r[2], r[3], fullTank) :
        day \in 1..MaxStatLen, r \in StatReadings, fullTank \in BOOLEAN}

StatInputs == UNION {[1..k -> StatRecords] : k \in 0..MaxStatLen}

\* one call in each behaviour
StatsNext == last = NoOp /\ \E es \in StatInputs : calculateStatsCall(es)

SpecStats == Init /\ [][StatsNext]_vars

(***************************************************************************)
(* SpecSort: getSortedEntries is applied, for each sort option, to every   *)
(* collection of at most MaxSortLen records, with equal and with distinct  *)
(* costs and timestamps.                                                   *)
(***************************************************************************)
MaxSortLen == 3

SortCosts == {Num(5, 1), Num(75, 10), Num(9, 1)}

SortRecords ==
    {[statRecord(day, 1000, 10, 5, TRUE) EXCEPT !.totalCost = cost] :
        day \in 1..MaxSortLen, cost \in SortCosts}

SortInputs == UNION {[1..k -> SortRecords] : k \in 0..MaxSortLen}

\* one call in each behaviour
SortNext == last = NoOp /\ \E es \in SortInputs : getSortedEntriesCall(es)

SpecSort == Init /\ [][SortNext]_vars

(***************************************************************************)
(* SpecChart: chartData is applied to collections of 0 to MaxChartLen      *)
(* records of consecutive days, given in ascending or descending order     *)
(* from any starting day.                                                  *)
(***************************************************************************)
MaxChartLen == 11

\* k records: the days 1..k in a cycle that starts at day s + 1, ascending
\* or descending; the record of day d costs 10 * d + c
chartInput(k, s, ascending, c) ==
    [i \in 1..k |->
        LET step == IF ascending THEN i - 1 ELSE k - i
            day == ((s + step) % k) + 1
        IN  statRecord(day, 1000 + day, 10, 10 * day + c, TRUE)]

ChartInputs ==
    {chartInput(k, s, ascending, c) :
        k \in 0..MaxChartLen, s \in 0..MaxChartLen, ascending \in BOOLEAN,
        c \in 1..3}

\* one call in each behaviour
ChartNext == last = NoOp /\ \E es \in ChartInputs : chartDataCall(es)

SpecChart == Init /\ [][ChartNext]_vars

(***************************************************************************)
(* SpecJournal: records of different days are created in any order of      *)
(* their days, edited (the day included) and deleted, over several         *)
(* sessions of the page.                                                   *)
(***************************************************************************)
\* the date input's onChange (src/App.tsx:741)
handleDateChange(val) ==
    /\ phase = "ready"
    /\ view = "ADD"
    /\ formData' = [formData EXCEPT !.date = val]
    /\ last' = [op |-> "handleDateChange", arg |-> <<>>]
    /\ UNCHANGED rowVars
    /\ UNCHANGED stationVars
    /\ UNCHANGED <<view, entries, loading, editingEntryId, isPriceFixed,
                   localStorage, pending, now, phase>>

\* the Recent Activity list of the dashboard: the last three of the
\* collection, latest position first
RecentLimit == 3
recentActivity(es) ==
    LET n == Len(es)
        k == IF n > RecentLimit THEN RecentLimit ELSE n
    IN  [r \in 1..k |-> es[n + 1 - r]]

JournalDates == {"2024-01-01", "2024-01-02"}
JournalOdometers == { <<"7">>, <<"8">> }

JournalNext ==
    \/ mountEffects
    \/ mountRerender
    \/ reload
    \/ tick
    \/ \E newView \in Views : handleTabChange(newView)
    \/ \E val \in JournalDates : handleDateChange(val)
    \/ handlePriceChange(<<"2">>)
    \/ handleVolumeChange(<<"2">>)
    \/ \E val \in JournalOdometers : handleOdometerChange(val)
    \/ handleAddEntry
    \/ \E i \in 1..MaxEntries : handleEdit(i)
    \/ \E i \in 1..MaxEntries, confirmed \in BOOLEAN : handleDelete(i, confirmed)

SpecJournal == Init /\ [][JournalNext]_vars

(***************************************************************************)
(* C1: a release after a classified drag ends at offset -80 when the       *)
(* offset at release is strictly below -40 and at offset 0 otherwise       *)
(* (exactly -40 included), and calls onSelect not at all.                  *)
(***************************************************************************)
C1_SnapOnRelease ==
    [][(last'.op = "handleEnd" /\ isDragging) =>
          /\ offset' = (IF offset < -40 THEN -80 ELSE 0)
          /\ selectCalls' = <<>>]_vars

\* a drag released at -41 has snapped open
C1_Witness ==
    /\ last.op = "handleEnd"
    /\ last.arg = <<TRUE, -41>>
    /\ offset = -80

(***************************************************************************)
(* C2: a release that is a tap calls onSelect exactly once, with the row's *)
(* station, and stays at offset 0 when the row is at 0; it closes the row  *)
(* (offset 0) and calls nothing when the row is open at -80.               *)
(***************************************************************************)
C2_TapSelectsOrCloses ==
    [][(last'.op = "handleEnd" /\ ~isDragging) =>
          /\ offset = 0 => (selectCalls' = <<station>> /\ offset' = 0)
          /\ offset = -80 => (selectCalls' = <<>> /\ offset' = 0)]_vars

\* a tap on the open row has closed it
C2_Witness ==
    /\ last.op = "handleEnd"
    /\ last.arg = <<FALSE, -80>>
    /\ offset = 0
    /\ selectCalls = <<>>

(***************************************************************************)
(* A text is the quotient num/den rounded to f decimals: it has exactly f  *)
(* digits after its point and its value is within half a unit of the last  *)
(* digit of num/den.                                                       *)
(***************************************************************************)
IsRounded(text, num, den, f) ==
    LET x == parseFloat(text)
        q == Quotient(num, den)
    IN  /\ Len(text) > f + 1
        /\ text[Len(text) - f] = "."
        /\ \A i \in (Len(text) - f + 1)..Len(text) : IsDigit(text[i])
        /\ ~isNaN(x)
        /\ LET m == x.n * (Pow10(f) \div x.d)
               whole == (Abs(q[1]) \div q[2]) * Pow10(f)
               part == (Abs(q[1]) % q[2]) * Pow10(f)
           IN  /\ (m < 0) => (q[1] < 0)
               /\ Abs(Abs(m) - whole) <= Pow10(f)
               /\ 2 * Abs((Abs(m) - whole) * q[2] - part) <= q[2]

IsNumeric(text) == text # <<>> /\ ~isNaN(parseFloat(text))

(***************************************************************************)
(* C3: after an edit of pricePerUnit or of volume, when both texts are     *)
(* present and parse as numbers, totalCost is volume x pricePerUnit        *)
(* rounded to 2 decimals; when either is empty or non-numeric, totalCost   *)
(* keeps its previous text. pricePerUnit "2" and then volume "10" give     *)
(* totalCost "20.00".                                                      *)
(***************************************************************************)
C3_CostRecomputed ==
    [][last'.op \in {"handlePriceChange", "handleVolumeChange"} =>
          LET pt == formData'.pricePerUnit
              vt == formData'.volume
          IN  /\ (IsNumeric(pt) /\ IsNumeric(vt)) =>
                    IsRounded(formData'.totalCost,
                              parseFloat(vt).n * parseFloat(pt).n,
                              parseFloat(vt).d * parseFloat(pt).d, 2)
              /\ ~(IsNumeric(pt) /\ IsNumeric(vt)) =>
                    formData'.totalCost = formData.totalCost
              /\ (pt = <<"2">> /\ vt = <<"1", "0">>) =>
                    formData'.totalCost = <<"2", "0", ".", "0", "0">>]_vars

\* pricePerUnit is "2", volume was just set to "10" and totalCost is "20.00"
C3_Witness ==
    /\ last.op = "handleVolumeChange"
    /\ formData.volume = <<"1", "0">>
    /\ formData.pricePerUnit = <<"2">>
    /\ formData.totalCost = <<"2", "0", ".", "0", "0">>

(***************************************************************************)
(* C4 as stated: after an edit of totalCost, when pricePerUnit is present, *)
(* numeric and non-zero, volume is totalCost / pricePerUnit rounded to 3   *)
(* decimals; otherwise volume is unchanged.                                *)
(***************************************************************************)
C4_AsStated ==
    [][last'.op = "handleTotalCostChange" =>
          LET pt == formData.pricePerUnit
              ct == formData'.totalCost
          IN  IF IsNumeric(pt) /\ parseFloat(pt).n # 0
              THEN /\ IsNumeric(ct)
                   /\ IsRounded(formData'.volume,
                                parseFloat(ct).n * parseFloat(pt).d,
                                parseFloat(ct).d * parseFloat(pt).n, 3)
              ELSE formData'.volume = formData.volume]_vars

(***************************************************************************)
(* C4, amended: after an edit of totalCost, when pricePerUnit is present,  *)
(* numeric and non-zero and the new totalCost is non-empty and numeric,    *)
(* volume is totalCost / pricePerUnit rounded to 3 decimals (15.00 with    *)
(* price 2 gives "7.500"); in every other case volume is unchanged. An     *)
(* edit of volume or of totalCost never changes pricePerUnit, and an edit  *)
(* of pricePerUnit never changes volume.                                   *)
(***************************************************************************)
C4_VolumeRecomputed ==
    [][/\ last'.op = "handleTotalCostChange" =>
            LET pt == formData.pricePerUnit
                ct == formData'.totalCost
            IN  /\ IF IsNumeric(pt) /\ parseFloat(pt).n # 0 /\ IsNumeric(ct)
                   THEN IsRounded(formData'.volume,
                                  parseFloat(ct).n * parseFloat(pt).d,
                                  parseFloat(ct).d * parseFloat(pt).n, 3)
                   ELSE formData'.volume = formData.volume
                /\ (pt = <<"2">> /\ ct = <<"1", "5", ".", "0", "0">>) =>
                      formData'.volume = <<"7", ".", "5", "0", "0">>
       /\ last'.op \in {"handleVolumeChange", "handleTotalCostChange"} =>
            formData'.pricePerUnit = formData.pricePerUnit
       /\ last'.op = "handlePriceChange" =>
            formData'.volume = formData.volume]_vars

\* pricePerUnit is "2", totalCost was just set to "15.00" and volume is "7.500"
C4_Witness ==
    /\ last.op = "handleTotalCostChange"
    /\ formData.totalCost = <<"1", "5", ".", "0", "0">>
    /\ formData.pricePerUnit = <<"2">>
    /\ formData.volume = <<"7", ".", "5", "0", "0">>

(***************************************************************************)
(* C6: a submit of a draft in which odometer, totalCost, volume or         *)
(* pricePerUnit is empty changes nothing: the records, the draft, the      *)
(* editing id, the view and the durable slots stay as they are.            *)
(***************************************************************************)
C6_EmptyFieldSubmitIsNoOp ==
    [][(/\ last'.op = "handleAddEntry"
        /\ \/ formData.odometer = <<>>
           \/ formData.totalCost = <<>>
           \/ formData.volume = <<>>
           \/ formData.pricePerUnit = <<>>) =>
          /\ entries' = entries
          /\ formData' = formData
          /\ editingEntryId' = editingEntryId
          /\ view' = view
          /\ localStorage' = localStorage]_vars

\* a draft with odometer, pricePerUnit and totalCost but no volume was
\* submitted, and is still the draft
C6_Witness ==
    /\ last.op = "handleAddEntry"
    /\ formData.volume = <<>>
    /\ formData.odometer # <<>>
    /\ formData.pricePerUnit # <<>>
    /\ formData.totalCost # <<>>

C8_UniqueIds ==
    [][/\ \A i, j \in 1..Len(entries') :
            entries'[i].id = entries'[j].id => i = j
       /\ (last'.op = "handleAddEntry" /\ Len(entries') > Len(entries)) =>
            \A i \in 1..Len(entries) :
               entries[i].id # entries'[Len(entries')].id]_vars

(***************************************************************************)
(* C5: a new blank draft (tab change into or out of the editor, cancel,    *)
(* successful submit) has the text of the durable fuel_saved_price slot as *)
(* its price when the price is pinned and an empty price when it is not;   *)
(* the slot is written with the draft's price when pinning is switched on  *)
(* and with every text typed into the price field while the price is       *)
(* pinned, and by nothing else.                                            *)
(***************************************************************************)
NewBlankDraft ==
    \/ last'.op = "handleCancel"
    \/ last'.op = "handleTabChange" /\ (view = "ADD" \/ view' = "ADD")
    \/ /\ last'.op = "handleAddEntry"
       /\ formData.odometer # <<>> /\ formData.totalCost # <<>>
       /\ formData.volume # <<>> /\ formData.pricePerUnit # <<>>

C5_PinnedPrice ==
    [][/\ NewBlankDraft =>
            /\ isPriceFixed =>
                  /\ localStorage.fuel_saved_price # Null
                  /\ formData'.pricePerUnit = localStorage.fuel_saved_price[1]
            /\ ~isPriceFixed => formData'.pricePerUnit = <<>>
            /\ formData'.odometer = <<>> /\ formData'.volume = <<>>
            /\ formData'.totalCost = <<>> /\ editingEntryId' = Null
       /\ IF last'.op = "handleToggleFixPrice" /\ ~isPriceFixed
          THEN /\ isPriceFixed'
               /\ localStorage'.fuel_saved_price = Some(formData.pricePerUnit)
          ELSE IF last'.op = "handlePriceChange" /\ isPriceFixed
          THEN localStorage'.fuel_saved_price = Some(formData'.pricePerUnit)
          ELSE localStorage'.fuel_saved_price = localStorage.fuel_saved_price]_vars

\* the price was pinned at "1.5" and the draft made by cancel holds "1.5"
C5_Witness ==
    /\ last.op = "handleCancel"
    /\ isPriceFixed
    /\ localStorage.fuel_saved_price = Some(<<"1", ".", "5">>)
    /\ formData.pricePerUnit = <<"1", ".", "5">>
    /\ formData.odometer = <<>>

(***************************************************************************)
(* C9: a recognition response that resolves after the draft that issued    *)
(* the request was discarded changes no field of the draft that is active  *)
(* when it arrives.                                                        *)
(***************************************************************************)
C9_LateResponseDropped ==
    [][(last'.op = "recognitionResolved" /\ last'.arg = <<TRUE>>)
          => formData' = formData]_vars

(***************************************************************************)
(* C10: while a recognition request is in flight the busy flag is set and  *)
(* no second request is in flight.                                         *)
(***************************************************************************)
C10_BusyWhileInFlight == pending # <<>> => (loading /\ Len(pending) = 1)

(***************************************************************************)
(* C11 as stated: a resolved recognition gives each of totalCost, volume,  *)
(* pricePerUnit, stationName and date the guessed value when it is not     *)
(* null and the previous value when it is null.                            *)
(***************************************************************************)
C11_AsStated ==
    [][last'.op = "recognitionResolved" =>
          LET d == last'.data
          IN  /\ formData'.totalCost = IF d.totalCost # Null
                                       THEN toString(d.totalCost[1])
                                       ELSE formData.totalCost
              /\ formData'.volume = IF d.volume # Null THEN toString(d.volume[1])
                                    ELSE formData.volume
              /\ formData'.pricePerUnit = IF d.pricePerUnit # Null
                                          THEN toString(d.pricePerUnit[1])
                                          ELSE formData.pricePerUnit
              /\ formData'.stationName = IF d.stationName # Null
                                         THEN d.stationName[1]
                                         ELSE formData.stationName
              /\ formData'.date = IF d.date # Null THEN d.date[1]
                                  ELSE formData.date]_vars

(***************************************************************************)
(* C11, amended: a resolved recognition gives each of totalCost, volume    *)
(* and pricePerUnit the text of the guessed number when it is not null,    *)
(* and each of stationName and date the guessed text when it is neither    *)
(* null nor empty; in every other case the field keeps its previous value. *)
(* odometer, time, fullTank, notes and the editing id are not changed by   *)
(* the merge, and a rejected recognition changes no field of the draft.    *)
(***************************************************************************)
C11_MergeTakesGuess ==
    [][/\ last'.op = "recognitionResolved" =>
            LET d == last'.data
            IN  /\ formData'.totalCost = IF d.totalCost # Null
                                         THEN toString(d.totalCost[1])
                                         ELSE formData.totalCost
                /\ formData'.volume = IF d.volume # Null
                                      THEN toString(d.volume[1])
                                      ELSE formData.volume
                /\ formData'.pricePerUnit = IF d.pricePerUnit # Null
                                            THEN toString(d.pricePerUnit[1])
                                            ELSE formData.pricePerUnit
                /\ formData'.stationName =
                      IF d.stationName # Null /\ d.stationName[1] # ""
                      THEN d.stationName[1] ELSE formData.stationName
                /\ formData'.date = IF d.date # Null /\ d.date[1] # ""
                                    THEN d.date[1] ELSE formData.date
                /\ formData'.odometer = formData.odometer
                /\ formData'.time = formData.time
                /\ formData'.fullTank = formData.fullTank
                /\ formData'.notes = formData.notes
                /\ editingEntryId' = editingEntryId
       /\ last'.op = "recognitionRejected" =>
            formData' = formData /\ editingEntryId' = editingEntryId]_vars

\* a draft with odometer "7" and station "Shell" has just merged the guess
\* with totalCost 0 and an empty station: "0" is taken, "Shell" is kept
C11_Witness ==
    /\ last.op = "recognitionResolved"
    /\ last.data.stationName = Some("")
    /\ formData.totalCost = <<"0">>
    /\ formData.stationName = "Shell"
    /\ formData.volume = <<"2">>
    /\ formData.odometer = <<"7">>

(***************************************************************************)
(* C12: once the App is mounted, the fuel_entries slot holds the JSON text *)
(* of the whole in-memory record collection and the fuel_stations slot the *)
(* whole in-memory station directory, after every create, edit and delete  *)
(* of a record and every add and delete of a station.                      *)
(***************************************************************************)
C12_SlotsHoldCollections ==
    phase = "ready" =>
        /\ localStorage.fuel_entries = Some(JSONstringify(entries))
        /\ localStorage.fuel_stations = Some(stations)

\* a station was deleted while two records are stored
C12_Witness ==
    /\ last.op = "handleDeleteStation"
    /\ last.arg = <<"Shell", TRUE>>
    /\ Len(entries) = 2
    /\ localStorage.fuel_stations = Some(stations)
    /\ localStorage.fuel_entries = Some(entries)

(***************************************************************************)
(* C13 as stated: handleAddStation leaves the directory unchanged when the *)
(* typed name is in it and adds exactly one entry when it is not.          *)
(***************************************************************************)
C13_AsStated ==
    [][last'.op = "handleAddStation" =>
          IF includes(stations, newStationName)
          THEN stations' = stations
          ELSE Len(stations') = Len(stations) + 1]_vars

(***************************************************************************)
(* C13, amended: with name the typed text without its surrounding white    *)
(* space, handleAddStation leaves the directory unchanged when name is     *)
(* empty or is in the directory (exact, case-sensitive match), and adds    *)
(* exactly the one entry name when it differs from every entry, even only  *)
(* by letter case; the directory never holds a name twice.                 *)
(***************************************************************************)
NoDuplicateStation ==
    \A i, j \in 1..Len(stations) : stations[i] = stations[j] => i = j

C13_AddStation ==
    /\ []NoDuplicateStation
    /\ [][last'.op = "handleAddStation" =>
             LET name == trim(newStationName)
                 had == {stations[i] : i \in 1..Len(stations)}
                 has == {stations'[i] : i \in 1..Len(stations')}
             IN  IF name = "" \/ name \in had
                 THEN stations' = stations
                 ELSE /\ Len(stations') = Len(stations) + 1
                      /\ has = had \cup {name}]_vars

\* "shell" was added to a directory that has "Shell"
C13_Witness ==
    /\ last.op = "handleAddStation"
    /\ last.arg = <<"shell">>
    /\ includes(stations, "Shell")
    /\ includes(stations, "shell")
    /\ Len(stations) = 4

(***************************************************************************)
(* C14: a confirmed handleDeleteStation(name) removes name from the        *)
(* directory and keeps the other names, clears the station field of the    *)
(* draft exactly when it equals name, and changes no record, in memory or  *)
(* in the fuel_entries slot; a declined one changes nothing.               *)
(***************************************************************************)
C14_DeleteStation ==
    [][last'.op = "handleDeleteStation" =>
          LET name == last'.arg[1]
          IN  IF last'.arg[2]
              THEN /\ stations' = SelectSeq(stations, LAMBDA st : st # name)
                   /\ formData' =
                         [formData EXCEPT !.stationName =
                             IF formData.stationName = name THEN ""
                             ELSE formData.stationName]
                   /\ entries' = entries
                   /\ localStorage'.fuel_entries = localStorage.fuel_entries
              ELSE /\ appVars' = appVars
                   /\ rowVars' = rowVars]_vars

\* "Shell" was deleted while a record names it and the draft holds "shell"
C14_Witness ==
    /\ last.op = "handleDeleteStation"
    /\ last.arg = <<"Shell", TRUE>>
    /\ ~includes(stations, "Shell")
    /\ formData.stationName = "shell"
    /\ \E i \in 1..Len(entries) : entries[i].stationName = "Shell"

(***************************************************************************)
(* C15: cancel, every successful submit and every tab change that leaves   *)
(* the editor or enters the add flow make the draft blank (today's date,   *)
(* the current time, empty odometer, volume, totalCost, station and notes, *)
(* the pinned price or an empty one) and clear the editing id; opening a   *)
(* record for editing sets every field of the draft from that record.      *)
(***************************************************************************)
C15_DraftReset ==
    [][/\ NewBlankDraft =>
            /\ formData' =
                  [date |-> today, time |-> getCurrentTime, odometer |-> <<>>,
                   pricePerUnit |-> IF isPriceFixed
                                    THEN localStorage.fuel_saved_price[1]
                                    ELSE <<>>,
                   volume |-> <<>>, totalCost |-> <<>>, stationName |-> "",
                   fullTank |-> TRUE, notes |-> ""]
            /\ editingEntryId' = Null
       /\ last'.op = "handleEdit" =>
            \E i \in 1..Len(entries) :
                /\ editingEntryId' = Some(entries[i].id)
                /\ formData'.date = entries[i].date.date
                /\ formData'.time = IF entries[i].date.iso THEN entries[i].date.time
                                    ELSE getCurrentTime
                /\ formData'.odometer = toString(entries[i].odometer)
                /\ formData'.pricePerUnit = toString(entries[i].pricePerUnit)
                /\ formData'.volume = toString(entries[i].volume)
                /\ formData'.totalCost = toString(entries[i].totalCost)
                /\ formData'.stationName = entries[i].stationName
                /\ formData'.fullTank = entries[i].fullTank
                /\ formData'.notes = entries[i].notes]_vars

\* a draft of station "Shell" was submitted with the price pinned: the record
\* is stored and the new draft holds the pinned price and nothing else
C15_Witness ==
    /\ last.op = "handleAddEntry"
    /\ view = "DASHBOARD"
    /\ isPriceFixed
    /\ \E i \in 1..Len(entries) : entries[i].stationName = "Shell"
    /\ formData = blankForm(<<"2">>)
    /\ editingEntryId = Null

(***************************************************************************)
(* C16: calculateStats of the empty collection gives 0 for all four        *)
(* statistics; of a single record r it gives totalDistance 0, averageKml   *)
(* 0, totalCost r.totalCost and lastOdometer r.odometer.                   *)
(***************************************************************************)
C16_FewerThanTwo ==
    last.op = "calculateStats" =>
        LET es == last.arg[1]
            stats == last.result
        IN  /\ Len(es) = 0 =>
                  /\ stats.totalCost = Num(0, 1)
                  /\ stats.totalDistance = Num(0, 1)
                  /\ stats.averageKml = Num(0, 1)
                  /\ stats.lastOdometer = Num(0, 1)
            /\ Len(es) = 1 =>
                  /\ stats.totalCost = es[1].totalCost
                  /\ stats.totalDistance = Num(0, 1)
                  /\ stats.averageKml = Num(0, 1)
                  /\ stats.lastOdometer = es[1].odometer

\* the statistics of the single record with odometer 1400 and totalCost 7
C16_Witness ==
    /\ last.op = "calculateStats"
    /\ Len(last.arg[1]) = 1
    /\ last.result.lastOdometer = Num(1400, 1)
    /\ last.result.totalCost = Num(7, 1)
    /\ last.result.totalDistance = Num(0, 1)

(***************************************************************************)
(* C17: for two or more records with pairwise distinct timestamps, in any  *)
(* order, lastOdometer is the odometer of the record with the greatest     *)
(* timestamp, totalDistance is that odometer minus the odometer of the     *)
(* record with the least timestamp (negative when the readings decrease),  *)
(* and totalCost is the sum of the totalCost of all records.               *)
(***************************************************************************)
DistinctTimestamps(es) ==
    \A i, j \in 1..Len(es) : getTime(es[i].date) = getTime(es[j].date) => i = j

RECURSIVE SumOfNumerators(_, _)
SumOfNumerators(xs, k) == IF k = 0 THEN 0 ELSE SumOfNumerators(xs, k - 1) + xs[k].n

C17_DistanceAndCost ==
    (/\ last.op = "calculateStats"
     /\ Len(last.arg[1]) >= 2
     /\ DistinctTimestamps(last.arg[1])) =>
        LET es == last.arg[1]
            stats == last.result
            latest == CHOOSE i \in 1..Len(es) :
                         \A j \in 1..Len(es) : getTime(es[j].date) <= getTime(es[i].date)
            earliest == CHOOSE i \in 1..Len(es) :
                         \A j \in 1..Len(es) : getTime(es[i].date) <= getTime(es[j].date)
        IN  /\ stats.lastOdometer = es[latest].odometer
            /\ stats.totalDistance =
                  Num(es[latest].odometer.n - es[earliest].odometer.n, 1)
            /\ stats.totalCost =
                  Num(SumOfNumerators([i \in 1..Len(es) |-> es[i].totalCost], Len(es)), 1)

\* three records given latest first, with readings that decrease over time
C17_Witness ==
    /\ last.op = "calculateStats"
    /\ Len(last.arg[1]) = 3
    /\ DistinctTimestamps(last.arg[1])
    /\ last.arg[1][1].date.date = Calendar[3]
    /\ last.arg[1][3].date.date = Calendar[2]
    /\ last.result.totalDistance = Num(-400, 1)
    /\ last.result.lastOdometer = Num(1000, 1)
    /\ last.result.totalCost = Num(19, 1)

(***************************************************************************)
(* C18: for two or more records, with S the sum of the volume of all       *)
(* records but the chronologically first (of several earliest records,     *)
(* the one given first), averageKml is totalDistance / S when S > 0 and 0  *)
(* when S = 0; fullTank takes no part. A (earlier, odometer 1000, volume   *)
(* 10) and B (later, odometer 1400, volume 20) give distance 400 and       *)
(* efficiency 20.                                                          *)
(***************************************************************************)
C18_Efficiency ==
    (last.op = "calculateStats" /\ Len(last.arg[1]) >= 2) =>
        LET es == last.arg[1]
            stats == last.result
            first == CHOOSE i \in 1..Len(es) :
                        \A j \in 1..Len(es) :
                            \/ getTime(es[i].date) < getTime(es[j].date)
                            \/ getTime(es[i].date) = getTime(es[j].date) /\ i <= j
            S == SumOfNumerators([i \in 1..Len(es) |->
                                    IF i = first THEN Num(0, 1) ELSE es[i].volume],
                                 Len(es))
        IN  /\ S > 0 => /\ stats.averageKml.kind = "number"
                         /\ stats.averageKml.n * S =
                               stats.totalDistance.n * stats.averageKml.d
            /\ S = 0 => stats.averageKml = Num(0, 1)
            /\ (/\ Len(es) = 2
                /\ es[1].odometer = Num(1000, 1) /\ es[1].volume = Num(10, 1)
                /\ es[2].odometer = Num(1400, 1) /\ es[2].volume = Num(20, 1)
                /\ getTime(es[1].date) < getTime(es[2].date)) =>
                   /\ stats.totalDistance = Num(400, 1)
                   /\ stats.averageKml = Num(20, 1)

\* A (odometer 1000, volume 10) and the later B (odometer 1400, volume 20),
\* one of them not a full tank
C18_Witness ==
    /\ last.op = "calculateStats"
    /\ Len(last.arg[1]) = 2
    /\ last.arg[1][1].odometer = Num(1000, 1) /\ last.arg[1][1].volume = Num(10, 1)
    /\ last.arg[1][2].odometer = Num(1400, 1) /\ last.arg[1][2].volume = Num(20, 1)
    /\ getTime(last.arg[1][1].date) < getTime(last.arg[1][2].date)
    /\ ~last.arg[1][1].fullTank /\ last.arg[1][2].fullTank
    /\ last.result.averageKml = Num(20, 1)

(***************************************************************************)
(* C19: for a collection with pairwise distinct totalCost, the 'cost-desc' *)
(* order reversed is the 'cost-asc' order; the result of every sort option *)
(* holds each record of the collection as often as the collection does.    *)
(***************************************************************************)
Reverse(seq) == [i \in 1..Len(seq) |-> seq[Len(seq) + 1 - i]]

Occurrences(seq, x) == Cardinality({i \in 1..Len(seq) : seq[i] = x})

IsPermutation(a, b) ==
    /\ Len(a) = Len(b)
    /\ \A i \in 1..Len(b) : Occurrences(a, b[i]) = Occurrences(b, b[i])

DistinctCosts(es) ==
    \A i, j \in 1..Len(es) : es[i].totalCost = es[j].totalCost => i = j

C19_CostOrdersMirror ==
    last.op = "getSortedEntries" =>
        LET es == last.arg[1]
        IN  /\ DistinctCosts(es) =>
                  Reverse(last.result["cost-desc"]) = last.result["cost-asc"]
            /\ \A o \in SortOptions : IsPermutation(last.result[o], es)
            /\ \A i \in 1..Len(es) - 1 :
                  LET asc == last.result["cost-asc"]
                  IN  asc[i].totalCost.n * asc[i + 1].totalCost.d
                        <= asc[i + 1].totalCost.n * asc[i].totalCost.d

\* three records of costs 7.5, 9, 5 in this order, sorted to 5, 7.5, 9
C19_Witness ==
    /\ last.op = "getSortedEntries"
    /\ Len(last.arg[1]) = 3
    /\ last.arg[1][1].totalCost = Num(75, 10)
    /\ last.arg[1][2].totalCost = Num(9, 1)
    /\ last.arg[1][3].totalCost = Num(5, 1)
    /\ last.result["cost-asc"][1].totalCost = Num(5, 1)
    /\ last.result["cost-desc"][1].totalCost = Num(9, 1)

(***************************************************************************)
(* C20: for n records of pairwise distinct timestamps chartData has        *)
(* min(10, n) points; point r is the record with exactly n - min(10, n) +  *)
(* r - 1 earlier records, and carries that record's totalCost.             *)
(***************************************************************************)
C20_ChartSeries ==
    last.op = "chartData" =>
        LET es == last.arg[1]
            n == Len(es)
            k == IF n > 10 THEN 10 ELSE n
            earlier(i) == Cardinality({j \in 1..n :
                              getTime(es[j].date) < getTime(es[i].date)})
        IN  /\ Len(last.result) = k
            /\ \A r \in 1..k :
                  \E i \in 1..n :
                      /\ earlier(i) = n - k + r - 1
                      /\ last.result[r].cost = es[i].totalCost
                      /\ last.result[r].date = ChartLabels[DayOf(es[i].date.date)]

\* eleven records given latest first: ten points, the first is the record
\* of day 2
C20_Witness ==
    /\ last.op = "chartData"
    /\ Len(last.arg[1]) = 11
    /\ last.arg[1][1].date.date = Calendar[11]
    /\ Len(last.result) = 10
    /\ last.result[1] = [date |-> "Jan 2", cost |-> Num(21, 1)]
    /\ last.result[10] = [date |-> "Jan 11", cost |-> Num(111, 1)]

(***************************************************************************)
(* C22: in every reachable state of the row, whatever pointer-down, -move, *)
(* -up and -leave events came before, the offset lies in [-80, 0]; and     *)
(* whenever no gesture is in progress (startX is null) the offset is       *)
(* exactly 0 or exactly -80.                                               *)
(***************************************************************************)
C22_OffsetInRange ==
    /\ offset \in -80..0
    /\ startX = Null => offset \in {0, -80}

\* a gesture that began on the open row has been moved: the offset is at
\* the left cap and the gesture is still in progress
C22_Witness ==
    /\ last.op = "handleMove"
    /\ startX # Null
    /\ isDragging
    /\ startOffset = -80
    /\ offset = -80

(***************************************************************************)
(* C24: in every reachable state, if the editing id is set then the view   *)
(* is the editor (ADD) and some record of the collection has that id: a    *)
(* submit of an edit always finds its record.                              *)
(***************************************************************************)
C24_EditingTargetsRecord ==
    editingEntryId # Null =>
        /\ view = "ADD"
        /\ \E i \in 1..Len(entries) : entries[i].id = editingEntryId[1]

\* the Edit button of a history row was pressed while the collection held
\* two records
C24_Witness ==
    /\ last.op = "handleEdit"
    /\ editingEntryId # Null
    /\ view = "ADD"
    /\ Len(entries) = 2

(***************************************************************************)
(* C21: rendering is read-only for the collection: after the render that   *)
(* follows the creation of a record, the records that were there are in    *)
(* the positions they had, the created record is behind them, and the      *)
(* Recent Activity list begins with the created record.                    *)
(***************************************************************************)
C21_RenderKeepsInsertionOrder ==
    [][(last'.op = "handleAddEntry" /\ Len(entries') = Len(entries) + 1) =>
          /\ SubSeq(entries', 1, Len(entries)) = entries
          /\ recentActivity(entries')[1] = withId(newId, payload(formData))]_vars

(***************************************************************************)
(* C23: a valid submit with the editing id set replaces the fields of      *)
(* exactly one record, the one with that id, which keeps its id and its    *)
(* position, leaves every other record and the size as they were, and      *)
(* shows HISTORY; a valid submit without editing id adds exactly one       *)
(* record, leaves the existing records as they were, and shows DASHBOARD.  *)
(***************************************************************************)
C23_SubmitFrame ==
    [][(last'.op = "handleAddEntry" /\ ~missingField(formData)) =>
          IF editingEntryId # Null
          THEN /\ Len(entries') = Len(entries)
               /\ view' = "HISTORY"
               /\ \E k \in 1..Len(entries) :
                     /\ entries[k].id = editingEntryId[1]
                     /\ entries'[k] = withId(editingEntryId[1], payload(formData))
                     /\ \A j \in 1..Len(entries) :
                           j # k => entries'[j] = entries[j]
          ELSE /\ Len(entries') = Len(entries) + 1
               /\ view' = "DASHBOARD"
               /\ \E k \in 1..Len(entries') :
                     /\ entries'[k] = withId(newId, payload(formData))
                     /\ \A j \in 1..Len(entries) :
                           entries[j] = entries'[IF j < k THEN j ELSE j + 1]]_vars

(***************************************************************************)
(* C25: when the page starts with a non-empty collection in the records    *)
(* slot, startup loads that collection into memory and the effects of the  *)
(* first commit leave the slot holding it; the same for the station        *)
(* directory slot.                                                         *)
(***************************************************************************)
C25_StartupKeepsSlots ==
    [][last'.op = "mountEffects" =>
          /\ (localStorage.fuel_entries # Null
                 /\ Len(localStorage.fuel_entries[1]) > 0) =>
                /\ entries' = localStorage.fuel_entries[1]
                /\ localStorage'.fuel_entries = localStorage.fuel_entries
          /\ (localStorage.fuel_stations # Null
                 /\ Len(localStorage.fuel_stations[1]) > 0) =>
                /\ stations' = localStorage.fuel_stations[1]
                /\ localStorage'.fuel_stations = localStorage.fuel_stations]_vars

====
